---- MODULE Spec2Model ----
(***************************************************************************)
(* Model of the request-serving layer of the Python inference service     *)
(* (src/cmd/inference-python/main.py): admission control, the request     *)
(* registry and its counters, the unary Summarize handler and the         *)
(* SummarizeStream generator.                                             *)
(*                                                                         *)
(* Every gRPC call is one process c \in Calls.  A handler is cut into     *)
(* steps at the places where other threads can interleave: each critical  *)
(* section of requests_lock is one step, and a generator is suspended at  *)
(* each yield.  The Model Engine (tokenizer.decode / summarizer /         *)
(* tokenizer.encode) is external: each of its calls returns a value from  *)
(* a small set or raises.                                                 *)
(***************************************************************************)
EXTENDS Integers, Sequences, FiniteSets, TLC

\* ---------------------------------------------------------------- bounds
\* Number of gRPC calls made during one run of the server.
NumCalls == 2
\* self.max_concurrent_requests (main.py:76 sets 8), scaled down so that
\* NumCalls calls can reach and overrun the ceiling.
max_concurrent_requests == 1
\* Longest token-id sequence tokenizer.encode returns for a summary.
MaxSummaryTokens == 2
\* Largest token id of the vocabulary; id 0 is a special token (<s>).
MaxTokenId == 1
\* Readings of int(time.time() * 1000000) range over 0..MaxTime.
MaxTime == 0

\* The hard ceiling on the tokens of one Tokenize call (tokenizer
\* main.py:139 sets 1024), scaled down so that short texts reach it.
hard_ceiling == 4
\* calls and Cache Store events in one run of the tokenizer service
MaxTokSteps == 2

\* request.max_length or 150
default_max_length == 150
\* the summarizer's max_length is capped at 130 for token-id input in
\* Summarize, at 150 for text input and in SummarizeStream
tokens_max_length == 130
text_max_length == 150

\* _post_process_summary: a text shorter than this is replaced
min_summary_chars == 10
\* _post_process_summary: a text longer than this is cut
max_summary_chars == 300

Calls == 1..NumCalls
TokenIds == 0..MaxTokenId
Times == 0..MaxTime

\* ------------------------------------------------------- request inputs
Kinds == {"Summarize", "SummarizeStream"}

\* request.request_id: "" is the proto default (no id supplied).
RequestIds == {"", "r1"}

\* (token_ids, original_text) pairs; a text is a sequence of characters.
Inputs ==
    { [token_ids |-> <<1>>, original_text |-> <<>>],
      [token_ids |-> <<>>,  original_text |-> <<"a", "b", "c", "d">>],
      [token_ids |-> <<>>,  original_text |-> <<" ">>],
      [token_ids |-> <<>>,  original_text |-> <<>>] }

\* request.max_length: 0 is the proto default (no length asked for)
MaxLengths == { 0 }

Requests ==
    { [request_id |-> i, token_ids |-> x.token_ids,
       original_text |-> x.original_text, max_length |-> m] :
        i \in RequestIds, x \in Inputs, m \in MaxLengths }

NoRequest ==
    [request_id |-> "", token_ids |-> <<>>, original_text |-> <<>>, max_length |-> 0]

\* str.strip() on a text
RECURSIVE lstrip(_)
lstrip(t) == IF t # <<>> /\ Head(t) = " " THEN lstrip(Tail(t)) ELSE t

RECURSIVE rstrip(_)
rstrip(t) ==
    IF t # <<>> /\ t[Len(t)] = " " THEN rstrip(SubSeq(t, 1, Len(t) - 1)) ELSE t

strip(t) == rstrip(lstrip(t))

\* InputKind as it would be if an all-whitespace text counted as input.
InputKind_unstripped(r) ==
    IF Len(r.token_ids) > 0 THEN "tokens"
    ELSE IF Len(r.original_text) > 0 THEN "text"
    ELSE "none"

\* which branch of the input resolution a request takes
InputKind(r) ==
    IF Len(r.token_ids) > 0 THEN "tokens"
    ELSE IF Len(strip(r.original_text)) > 0 THEN "text"
    ELSE "none"

\* ------------------------------------------------------------ the state
VARIABLES
    active_requests,      \* self.active_requests: request id -> the call whose RequestContext it holds
    total_requests,       \* self.total_requests
    successful_requests,  \* self.successful_requests
    failed_requests,      \* self.failed_requests
    pc,                   \* position of each call's handler
    kind,                 \* which RPC the call is
    request,              \* the call's request message
    request_id,           \* the handler's local request_id ("" until line 201 / 276 ran)
    ctx_status,           \* status of the RequestContext the call created ("none" before)
    generated_token_ids,  \* the generator's local generated_token_ids
    idx,                  \* the generator's loop index i
    emitted,              \* messages the generator has yielded so far
    code,                 \* gRPC status code set on the call's context
    response,             \* the unary handler's SummarizeResponse
    engine_calls,         \* Model Engine invocations the handler has made
    health                \* what the last HealthCheck did and answered

\* the tokenizer service (src/cmd/tokenizer-python/main.py)
VARIABLES
    tokenizers,           \* self.tokenizers: the model names whose tokenizer loaded
    redis_client,         \* TRUE: self.redis_client is a client, FALSE: it is None
    store,                \* the Cache Store: key -> stored payload
    tok_steps,            \* calls handled and Cache Store events so far
    tok_last              \* the last call handled (request, response, what it
                          \* did), or the Cache Store event that came after it

\* InferenceService._post_process_summary, applied to one raw summary
VARIABLES
    raw_summary,          \* the text handed to _post_process_summary
    processed             \* its return value (NotProcessed before the call)

vars == << active_requests, total_requests, successful_requests, failed_requests,
           pc, kind, request, request_id, ctx_status, generated_token_ids, idx,
           emitted, code, response, engine_calls, health,
           tokenizers, redis_client, store, tok_steps, tok_last,
           raw_summary, processed >>

inference_vars ==
        << active_requests, total_requests, successful_requests,
           failed_requests, pc, kind, request, request_id, ctx_status,
           generated_token_ids, idx, emitted, code, response, engine_calls,
           health >>

tokenizer_vars == << tokenizers, redis_client, store, tok_steps, tok_last >>

postprocess_vars == << raw_summary, processed >>

registry == << active_requests, total_requests, successful_requests, failed_requests >>

\* calls of self.summarizer and of self.tokenizer.encode / decode, and
\* whether one of them raised; what the summarizer was called with (the
\* resolved input, max_length) and whether its result went through
\* _post_process_summary
NoEngineCalls ==
    [summarizer |-> 0, tokenizer |-> 0, raised |-> FALSE,
     input |-> "none", max_length |-> 0, post_processed |-> FALSE]

\* no HealthCheck has been handled
NotChecked ==
    [status |-> "none", read_registry |-> FALSE, active_requests |-> 0,
     lock_held |-> FALSE]

EmptyResponse ==
    [summary |-> "", success |-> FALSE, tokens_used |-> 0,
     generated_token_ids |-> <<>>, error |-> ""]

\* InferenceService.__init__
InferenceInit ==
    /\ active_requests = << >>
    /\ total_requests = 0
    /\ successful_requests = 0
    /\ failed_requests = 0
    /\ pc = [c \in Calls |-> "idle"]
    /\ kind = [c \in Calls |-> "none"]
    /\ request = [c \in Calls |-> NoRequest]
    /\ request_id = [c \in Calls |-> ""]
    /\ ctx_status = [c \in Calls |-> "none"]
    /\ generated_token_ids = [c \in Calls |-> <<>>]
    /\ idx = [c \in Calls |-> 0]
    /\ emitted = [c \in Calls |-> <<>>]
    /\ code = [c \in Calls |-> "OK"]
    /\ response = [c \in Calls |-> EmptyResponse]
    /\ engine_calls = [c \in Calls |-> NoEngineCalls]
    /\ health = NotChecked

\* no tokenizer call has been handled
NoTokenizerCall == [op |-> "none"]

\* the tokenizer service is not part of the run
TokenizerNotStarted ==
    /\ tokenizers = {}
    /\ redis_client = FALSE
    /\ store = << >>
    /\ tok_steps = 0
    /\ tok_last = NoTokenizerCall

\* _post_process_summary has not returned
NotProcessed == [returned |-> FALSE, text |-> << >>]

PostProcessNotCalled ==
    /\ raw_summary = << >>
    /\ processed = NotProcessed

Init ==
    /\ InferenceInit
    /\ TokenizerNotStarted
    /\ PostProcessNotCalled

\* --------------------------------------------------------- Model Engine
\* What one pass through tokenizer.decode(input ids) / summarizer(...) /
\* tokenizer.encode(summary) can produce: one of the three calls raises,
\* the summarizer returns an empty list, or encode returns a token-id
\* sequence.  tag "decode_raises" only exists for token-id input.
RECURSIVE SeqsUpTo(_, _)
SeqsUpTo(S, n) ==
    IF n = 0 THEN { <<>> }
    ELSE LET shorter == SeqsUpTo(S, n - 1)
         IN  shorter \cup { Append(q, x) : q \in shorter, x \in S }

SummaryTokenSeqs == SeqsUpTo(TokenIds, MaxSummaryTokens)

EngineOutcomes(input) ==
    { [tag |-> t, ids |-> <<>>] :
        t \in (IF input = "tokens" THEN {"decode_raises"} ELSE {})
              \cup {"summarizer_raises", "no_result", "encode_raises"} }
    \cup { [tag |-> "ok", ids |-> q] : q \in SummaryTokenSeqs }

\* the Model Engine was not called
NotCalled == [tag |-> "not_called", ids |-> <<>>]

\* tokenizer.decode([token_id], skip_special_tokens=True): the special
\* token 0 decodes to the empty string.
decode_token(token_id) ==
    IF token_id = 0 THEN "" ELSE "t" \o ToString(token_id)

\* ------------------------------------------------- registry / admission
check_capacity ==
    Cardinality(DOMAIN active_requests) < max_concurrent_requests

\* request.request_id or f"inf_{int(time.time() * 1000000)}"
new_request_id(k, r, now) ==
    IF r.request_id # "" THEN r.request_id
    ELSE IF k = "Summarize" THEN "inf_" \o ToString(now)
    ELSE "inf_stream_" \o ToString(now)

add_request(c, id) ==
    /\ active_requests' = (id :> c) @@ active_requests
    /\ total_requests' = total_requests + 1
    /\ ctx_status' = [ctx_status EXCEPT ![c] = "processing"]

remove_request(id, success) ==
    /\ active_requests' =
          [k \in DOMAIN active_requests \ {id} |-> active_requests[k]]
    /\ IF success
         THEN /\ successful_requests' = successful_requests + 1
              /\ UNCHANGED failed_requests
         ELSE /\ failed_requests' = failed_requests + 1
              /\ UNCHANGED successful_requests
    /\ UNCHANGED total_requests

\* ------------------------------------------------------------ admission
\* A call arrives: the handler is entered with its request.  Calls are
\* numbered in the order in which they reach the capacity check.
Arrive(c, k, r) ==
    /\ pc[c] = "idle"
    /\ (c > 1) => (pc[c - 1] # "idle")
    /\ kind' = [kind EXCEPT ![c] = k]
    /\ request' = [request EXCEPT ![c] = r]

\* _check_capacity() returned True: the handler goes on to line 201 / 276.
Admit(c) ==
    \E k \in Kinds, r \in Requests :
        /\ Arrive(c, k, r)
        /\ check_capacity
        /\ pc' = [pc EXCEPT ![c] = "admitted"]
        /\ UNCHANGED << registry, request_id, ctx_status, generated_token_ids,
                        idx, emitted, code, response, engine_calls >>
        /\ UNCHANGED << health, tokenizer_vars, postprocess_vars >>

\* Reject as it would be if the rejection path went through the registry
\* bookkeeping (a rejected call counted as a failed request).
Reject_counted(c) ==
    \E k \in Kinds, r \in Requests :
        /\ Arrive(c, k, r)
        /\ ~check_capacity
        /\ code' = [code EXCEPT ![c] = "RESOURCE_EXHAUSTED"]
        /\ response' = [response EXCEPT ![c] = EmptyResponse]
        /\ pc' = [pc EXCEPT ![c] = "done"]
        /\ total_requests' = total_requests + 1
        /\ failed_requests' = failed_requests + 1
        /\ UNCHANGED << active_requests, successful_requests, request_id,
                        ctx_status, generated_token_ids, idx, emitted, engine_calls >>
        /\ UNCHANGED << health, tokenizer_vars, postprocess_vars >>

\* _check_capacity() returned False: RESOURCE_EXHAUSTED and return.
Reject(c) ==
    \E k \in Kinds, r \in Requests :
        /\ Arrive(c, k, r)
        /\ ~check_capacity
        /\ code' = [code EXCEPT ![c] = "RESOURCE_EXHAUSTED"]
        /\ response' = [response EXCEPT ![c] = EmptyResponse]
        /\ pc' = [pc EXCEPT ![c] = "done"]
        /\ UNCHANGED << registry, request_id, ctx_status, generated_token_ids,
                        idx, emitted, engine_calls >>
        /\ UNCHANGED << health, tokenizer_vars, postprocess_vars >>

\* request_id = ...; req_context = self._add_request(request_id)
Register(c) ==
    /\ pc[c] = "admitted"
    /\ \E now \in Times :
          LET id == new_request_id(kind[c], request[c], now)
          IN  /\ request_id' = [request_id EXCEPT ![c] = id]
              /\ add_request(c, id)
    /\ pc' = [pc EXCEPT ![c] = "registered"]
    /\ UNCHANGED << successful_requests, failed_requests, kind, request,
                    generated_token_ids, idx, emitted, code, response, engine_calls >>
    /\ UNCHANGED << health, tokenizer_vars, postprocess_vars >>

\* ---------------------------------------------------- Summarize (unary)
\* _generate_from_tokens: every exception is caught inside and turned
\* into a (message, []) result.
generate_from_tokens(o) ==
    IF o.tag = "decode_raises"
      THEN [summary |-> "Failed to decode input tokens for summarization.", tokens |-> <<>>]
    ELSE IF o.tag \in {"summarizer_raises", "encode_raises"}
      THEN [summary |-> "Summarization failed: e", tokens |-> <<>>]
    ELSE IF o.tag = "no_result"
      THEN [summary |-> "Unable to generate summary from the provided tokens.", tokens |-> <<>>]
    ELSE [summary |-> "summary", tokens |-> o.ids]

\* _generate_from_text: likewise.
generate_from_text(o) ==
    IF o.tag \in {"summarizer_raises", "encode_raises"}
      THEN [summary |-> "Summary generation failed: e", tokens |-> <<>>]
    ELSE IF o.tag = "no_result"
      THEN [summary |-> "Unable to generate summary from the provided text.", tokens |-> <<>>]
    ELSE [summary |-> "summary", tokens |-> o.ids]

\* SummarizeResult as it would be if a failure of the Model Engine were
\* reported in the response body alone.
SummarizeResult_body_only(r, o) ==
    LET input == InputKind(r)
        g == IF input = "tokens" THEN generate_from_tokens(o)
             ELSE IF input = "text" THEN generate_from_text(o)
             ELSE [summary |-> "No valid input provided for summarization.", tokens |-> <<>>]
        used == IF input = "tokens" THEN Len(r.token_ids)
                ELSE IF input = "text" THEN Len(r.original_text) \div 4
                ELSE 0
        raised == o.tag \in {"decode_raises", "summarizer_raises", "encode_raises"}
    IN  [summary |-> g.summary, success |-> ~raised, tokens_used |-> used,
         generated_token_ids |-> g.tokens,
         error |-> IF raised THEN g.summary ELSE ""]

\* The three branches of lines 210-227 and the response of lines 239-245.
SummarizeResult(r, o) ==
    LET input == InputKind(r)
        g == IF input = "tokens" THEN generate_from_tokens(o)
             ELSE IF input = "text" THEN generate_from_text(o)
             ELSE [summary |-> "No valid input provided for summarization.", tokens |-> <<>>]
        used == IF input = "tokens" THEN Len(r.token_ids)
                ELSE IF input = "text" THEN Len(r.original_text) \div 4
                ELSE 0
    IN  [summary |-> g.summary, success |-> TRUE, tokens_used |-> used,
         generated_token_ids |-> g.tokens, error |-> ""]

\* request.max_length or 150 (lines 213, 221, 302)
requested_max_length(r) ==
    IF r.max_length # 0 THEN r.max_length ELSE default_max_length

\* max_length handed to self.summarizer: min(max_length, 130) for token
\* ids and min(max_length, 150) for text in Summarize (396, 430),
\* min(request.max_length or 150, 150) in SummarizeStream (302)
summarizer_max_length(k, r) ==
    LET cap == IF k = "Summarize" /\ InputKind(r) = "tokens"
                 THEN tokens_max_length ELSE text_max_length
    IN  IF requested_max_length(r) < cap THEN requested_max_length(r) ELSE cap

\* The Model Engine invocations of one pass through lines 210-227: the
\* decode of the input ids, the summarizer call, the encode of its result.
\* k is the RPC, r its request, o the outcome.
EngineUse(k, r, o) ==
    LET input == InputKind(r)
        decoded == IF input = "tokens" /\ o.tag # "not_called" THEN 1 ELSE 0
        summarized == IF o.tag \in {"not_called", "decode_raises"} THEN 0 ELSE 1
        encoded == IF o.tag \in {"encode_raises", "ok"} THEN 1 ELSE 0
    IN  [summarizer |-> summarized, tokenizer |-> decoded + encoded,
         raised |-> o.tag \in {"decode_raises", "summarizer_raises", "encode_raises"},
         input |-> IF summarized = 1 THEN input ELSE "none",
         max_length |-> IF summarized = 1 THEN summarizer_max_length(k, r) ELSE 0,
         post_processed |-> k = "Summarize" /\ encoded = 1]

\* Lines 204-235: resolve the input, call the Model Engine, set
\* req_context.status = "completed".  No exception reaches the handler's
\* own except clause: the _generate_* helpers swallow them all.
UnaryGenerate(c) ==
    /\ pc[c] = "registered"
    /\ kind[c] = "Summarize"
    /\ \E o \in (IF InputKind(request[c]) = "none" THEN {NotCalled}
                ELSE EngineOutcomes(InputKind(request[c]))) :
          /\ response' = [response EXCEPT ![c] = SummarizeResult(request[c], o)]
          /\ engine_calls' = [engine_calls EXCEPT
                                 ![c] = EngineUse(kind[c], request[c], o)]
    /\ ctx_status' = [ctx_status EXCEPT ![c] = "completed"]
    /\ pc' = [pc EXCEPT ![c] = "completing"]
    /\ UNCHANGED << registry, kind, request, request_id, generated_token_ids,
                    idx, emitted, code >>
    /\ UNCHANGED << health, tokenizer_vars, postprocess_vars >>

\* ------------------------------------------------------ SummarizeStream
NoInputMessage ==
    [token |-> "No valid input provided for streaming.", is_final |-> TRUE,
     position |-> 0, generated_token_id |-> 0]

UnableMessage ==
    [token |-> "Unable to generate summary for streaming.", is_final |-> TRUE,
     position |-> 0, generated_token_id |-> 0]

ErrorMessage ==
    [token |-> "Streaming error: e", is_final |-> TRUE,
     position |-> 0, generated_token_id |-> 0]

\* TokenMessage with positions counted from one
TokenMessage_one_based(ids, i) ==
    [token |-> decode_token(ids[i + 1]), is_final |-> FALSE,
     position |-> i + 1, generated_token_id |-> ids[i + 1]]

\* the message of loop iteration i (zero-based) over ids
TokenMessage(ids, i) ==
    [token |-> decode_token(ids[i + 1]), is_final |-> FALSE,
     position |-> i, generated_token_id |-> ids[i + 1]]

\* FinalMessage with the index of the last token as its position
FinalMessage_last_index(ids) ==
    [token |-> "", is_final |-> TRUE,
     position |-> Len(ids) - 1, generated_token_id |-> 0]

FinalMessage(ids) ==
    [token |-> "", is_final |-> TRUE,
     position |-> Len(ids), generated_token_id |-> 0]

Yield(c, m, at) ==
    /\ emitted' = [emitted EXCEPT ![c] = Append(@, m)]
    /\ pc' = [pc EXCEPT ![c] = at]

\* loop_step as it would be if the except clause sat inside the loop body:
\* after the error message of a token the loop goes on with the next one.
loop_step_except_inside(c, ids, i, used) ==
    IF i < Len(ids)
      THEN /\ idx' = [idx EXCEPT ![c] = i]
           /\ \/ /\ Yield(c, TokenMessage(ids, i), "yield_token")
                 /\ engine_calls' = [engine_calls EXCEPT
                        ![c] = [used EXCEPT !.tokenizer = @ + 1]]
              \/ /\ Yield(c, ErrorMessage, "yield_token")
                 /\ engine_calls' = [engine_calls EXCEPT
                        ![c] = [used EXCEPT !.tokenizer = @ + 1, !.raised = TRUE]]
      ELSE /\ UNCHANGED idx
           /\ engine_calls' = [engine_calls EXCEPT ![c] = used]
           /\ Yield(c, FinalMessage(ids), "yield_terminal")

\* The for loop of lines 317-337 from the start of iteration i up to the
\* next yield: the token of iteration i, or the error message when
\* decoding it raises, or the final message when the loop is exhausted.
\* used is the count of Model Engine invocations made before the step.
loop_step(c, ids, i, used) ==
    IF i < Len(ids)
      THEN /\ idx' = [idx EXCEPT ![c] = i]
           /\ \/ /\ Yield(c, TokenMessage(ids, i), "yield_token")
                 /\ engine_calls' = [engine_calls EXCEPT
                        ![c] = [used EXCEPT !.tokenizer = @ + 1]]
              \/ /\ Yield(c, ErrorMessage, "yield_terminal")
                 /\ engine_calls' = [engine_calls EXCEPT
                        ![c] = [used EXCEPT !.tokenizer = @ + 1, !.raised = TRUE]]
      ELSE /\ UNCHANGED idx
           /\ engine_calls' = [engine_calls EXCEPT ![c] = used]
           /\ Yield(c, FinalMessage(ids), "yield_terminal")

\* Lines 279-295, no usable input: the terminal message of line 290.
StreamNoInput(c) ==
    /\ pc[c] = "registered"
    /\ kind[c] = "SummarizeStream"
    /\ InputKind(request[c]) = "none"
    /\ Yield(c, NoInputMessage, "yield_noinput")
    /\ UNCHANGED << registry, kind, request, request_id, ctx_status,
                    generated_token_ids, idx, code, response, engine_calls >>
    /\ UNCHANGED << health, tokenizer_vars, postprocess_vars >>

\* Line 285 raises: the outer except clause, lines 362-366.
StreamDecodeFails(c) ==
    /\ pc[c] = "registered"
    /\ kind[c] = "SummarizeStream"
    /\ InputKind(request[c]) = "tokens"
    /\ ctx_status' = [ctx_status EXCEPT ![c] = "failed"]
    /\ code' = [code EXCEPT ![c] = "INTERNAL"]
    /\ engine_calls' = [engine_calls EXCEPT
                           ![c] = EngineUse(kind[c], request[c],
                                            [tag |-> "decode_raises"])]
    /\ pc' = [pc EXCEPT ![c] = "failing"]
    /\ UNCHANGED << registry, kind, request, request_id, generated_token_ids,
                    idx, emitted, response >>
    /\ UNCHANGED << health, tokenizer_vars, postprocess_vars >>

\* Lines 279-353 up to the first yield, with an input that resolved: the
\* summarizer call, the encode of its result and the first loop iteration.
\* (A raise of line 285 is StreamDecodeFails; the outcomes left are those
\* of a text input.)
StreamGenerate(c) ==
    /\ pc[c] = "registered"
    /\ kind[c] = "SummarizeStream"
    /\ InputKind(request[c]) # "none"
    /\ \E o \in EngineOutcomes("text") :
          LET used == EngineUse(kind[c], request[c], o)
          IN  IF o.tag = "ok"
                THEN /\ generated_token_ids' =
                           [generated_token_ids EXCEPT ![c] = o.ids]
                     /\ loop_step(c, o.ids, 0, used)
                ELSE /\ Yield(c, IF o.tag = "no_result" THEN UnableMessage
                                 ELSE ErrorMessage, "yield_terminal")
                     /\ engine_calls' = [engine_calls EXCEPT ![c] = used]
                     /\ UNCHANGED << generated_token_ids, idx >>
    /\ UNCHANGED << registry, kind, request, request_id, ctx_status, code, response >>
    /\ UNCHANGED << health, tokenizer_vars, postprocess_vars >>

\* The generator is resumed after a token: time.sleep(0.03), next iteration.
StreamResume(c) ==
    /\ pc[c] = "yield_token"
    /\ loop_step(c, generated_token_ids[c], idx[c] + 1, engine_calls[c])
    /\ UNCHANGED << registry, kind, request, request_id, ctx_status,
                    generated_token_ids, code, response >>
    /\ UNCHANGED << health, tokenizer_vars, postprocess_vars >>

\* The generator is resumed after a terminal message of lines 332-353:
\* line 356, req_context.status = "completed".
StreamFinish(c) ==
    /\ pc[c] = "yield_terminal"
    /\ ctx_status' = [ctx_status EXCEPT ![c] = "completed"]
    /\ pc' = [pc EXCEPT ![c] = "completing"]
    /\ UNCHANGED << registry, kind, request, request_id, generated_token_ids,
                    idx, emitted, code, response, engine_calls >>
    /\ UNCHANGED << health, tokenizer_vars, postprocess_vars >>

\* The generator is resumed after the message of line 290: return (line 295).
StreamReturn(c) ==
    /\ pc[c] = "yield_noinput"
    /\ pc' = [pc EXCEPT ![c] = "done"]
    /\ UNCHANGED << registry, kind, request, request_id, ctx_status,
                    generated_token_ids, idx, emitted, code, response, engine_calls >>
    /\ UNCHANGED << health, tokenizer_vars, postprocess_vars >>

\* The client goes away and the suspended generator is closed:
\* GeneratorExit is raised at the yield.  It is a BaseException, so neither
\* "except Exception" clause catches it, and there is no finally.
Cancel(c) ==
    /\ pc[c] \in {"yield_token", "yield_terminal", "yield_noinput"}
    /\ pc' = [pc EXCEPT ![c] = "cancelled"]
    /\ UNCHANGED << registry, kind, request, request_id, ctx_status,
                    generated_token_ids, idx, emitted, code, response, engine_calls >>
    /\ UNCHANGED << health, tokenizer_vars, postprocess_vars >>

\* ----------------------------------------------------------- completion
\* self._remove_request(request_id, True) and the handler's return
\* (lines 237-245, 360).
Complete(c) ==
    /\ pc[c] = "completing"
    /\ remove_request(request_id[c], TRUE)
    /\ pc' = [pc EXCEPT ![c] = "done"]
    /\ UNCHANGED << kind, request, request_id, ctx_status, generated_token_ids,
                    idx, emitted, code, response, engine_calls >>
    /\ UNCHANGED << health, tokenizer_vars, postprocess_vars >>

\* self._remove_request(request_id, False), line 368.
Fail(c) ==
    /\ pc[c] = "failing"
    /\ remove_request(request_id[c], FALSE)
    /\ pc' = [pc EXCEPT ![c] = "done"]
    /\ UNCHANGED << kind, request, request_id, ctx_status, generated_token_ids,
                    idx, emitted, code, response, engine_calls >>
    /\ UNCHANGED << health, tokenizer_vars, postprocess_vars >>

\* ----------------------------------------------------------- HealthCheck
\* InferenceService.HealthCheck (lines 474-497).  The service runs only
\* with a loaded model (_initialize_model raises otherwise), so line 477
\* gives "healthy"; psutil.virtual_memory() (480) is taken to answer, so
\* the except clause is not entered.  Line 481 reads
\* len(self.active_requests) without taking requests_lock.
HealthCheck_counting ==
    /\ health' = [status |-> "healthy", read_registry |-> TRUE,
                  active_requests |-> Cardinality(DOMAIN active_requests),
                  lock_held |-> FALSE]
    /\ total_requests' = total_requests + 1
    /\ UNCHANGED << active_requests, successful_requests, failed_requests,
                    pc, kind, request, request_id, ctx_status,
                    generated_token_ids, idx, emitted, code, response, engine_calls >>
    /\ UNCHANGED << tokenizer_vars, postprocess_vars >>

HealthCheck ==
    /\ health' = [status |-> "healthy", read_registry |-> TRUE,
                  active_requests |-> Cardinality(DOMAIN active_requests),
                  lock_held |-> FALSE]
    /\ UNCHANGED << registry, pc, kind, request, request_id, ctx_status,
                    generated_token_ids, idx, emitted, code, response, engine_calls >>
    /\ UNCHANGED << tokenizer_vars, postprocess_vars >>

Next ==
    \/ HealthCheck
    \/ \E c \in Calls :
        \/ Admit(c)
        \/ Reject(c)
        \/ Register(c)
        \/ UnaryGenerate(c)
        \/ StreamNoInput(c)
        \/ StreamDecodeFails(c)
        \/ StreamGenerate(c)
        \/ StreamResume(c)
        \/ StreamFinish(c)
        \/ StreamReturn(c)
        \/ Cancel(c)
        \/ Complete(c)
        \/ Fail(c)

Spec == Init /\ [][Next]_vars

\* ==================================================== tokenizer service
\* Texts are sequences of characters.  The stand-in tokenizers map each
\* character to one token; their vocabularies list the special tokens
\* first, and a token's id is its index in the vocabulary, from 0.
BART == "facebook/bart-large-cnn"
T5 == "google-t5/t5-base"

\* the models _initialize_tokenizers tries to load, in its order
Models == << BART, T5 >>

Vocab(model) ==
    IF model = BART THEN << "<s>", "<pad>", "</s>", "a", "b" >>
    ELSE << "<pad>", "</s>", "<unk>", "a", "b" >>

\* the special tokens a tokenizer puts before and after the text
SpecialPrefix(model) == IF model = BART THEN << 0 >> ELSE << >>
SpecialSuffix(model) == IF model = BART THEN << 2 >> ELSE << 1 >>
\* both vocabularies list their three special tokens first
SpecialIds(model) == {0, 1, 2}

token_id(model, ch) ==
    (CHOOSE k \in 1..Len(Vocab(model)) : Vocab(model)[k] = ch) - 1

Take(q, n) == SubSeq(q, 1, IF n < Len(q) THEN (IF n < 0 THEN 0 ELSE n) ELSE Len(q))

\* tokenizer(text, add_special_tokens=..., max_length=..., truncation=True)
\* ["input_ids"]: the text is cut so that the ids, special tokens
\* included, number at most max_length.
encode(model, text, add_special_tokens, max_length) ==
    LET content == [k \in 1..Len(text) |-> token_id(model, text[k])]
    IN  IF add_special_tokens
          THEN LET room == max_length - Len(SpecialPrefix(model))
                                      - Len(SpecialSuffix(model))
               IN  SpecialPrefix(model) \o Take(content, room) \o SpecialSuffix(model)
          ELSE Take(content, max_length)

\* the number of ids of the text when nothing is cut
full_token_count(model, text, add_special_tokens) ==
    Len(text) + (IF add_special_tokens
                   THEN Len(SpecialPrefix(model)) + Len(SpecialSuffix(model))
                   ELSE 0)

\* tokenizer.convert_ids_to_tokens(token_ids)
convert_ids_to_tokens(model, ids) ==
    [k \in 1..Len(ids) |-> Vocab(model)[ids[k] + 1]]

\* tokenizer.decode(ids, skip_special_tokens=...): the tokens' texts in
\* order.  (clean_up_tokenization_spaces changes nothing in a text over
\* this alphabet, which has neither spaces nor punctuation.)
decode(model, ids, skip_special_tokens) ==
    LET kept == SelectSeq(ids, LAMBDA t : ~(skip_special_tokens /\ t \in SpecialIds(model)))
    IN  convert_ids_to_tokens(model, kept)

\* the model picked as self.default_model
default_model ==
    IF BART \in tokenizers THEN BART
    ELSE Models[CHOOSE k \in 1..Len(Models) :
                   /\ Models[k] \in tokenizers
                   /\ \A j \in 1..(k - 1) : Models[j] \notin tokenizers]

\* _get_tokenizer, and actual_model of lines 108 / 207
get_tokenizer(model_name) ==
    IF model_name \in tokenizers THEN model_name ELSE default_model

\* _cache_key: a digest of prefix, content, model and parameters (taken
\* as collision-free: equal keys for equal arguments only)
cache_key(prefix, content, model_name, params) ==
    << prefix, content, model_name, params >>

\* max_length of line 139 as it would be without the hard ceiling
effective_max_length_unclamped(max_tokens) ==
    IF max_tokens > 0 THEN max_tokens ELSE hard_ceiling

\* line 139
effective_max_length(max_tokens) ==
    IF max_tokens > 0
      THEN (IF max_tokens < hard_ceiling THEN max_tokens ELSE hard_ceiling)
      ELSE hard_ceiling

\* ------------------------------------------------------------- requests
LongText == [k \in 1..(hard_ceiling + 1) |-> "a"]

\* a text below the ceiling, and one above it
TokTexts == { << "a", "b", "a" >>, LongText }

\* request.max_tokens: negative, unspecified (0), small, above the ceiling
MaxTokensValues == { -1, 0, 3, 2 * hard_ceiling }

\* request.model_name: unspecified, or a model that may have loaded
ModelNames == { "", T5 }

TokenizeRequests ==
    [ text : TokTexts, model_name : ModelNames, max_tokens : MaxTokensValues,
      include_special_tokens : BOOLEAN ]

DetokenizeRequests ==
    [ token_ids : { << 0, 3, 4, 2 >>, << 4, 3 >> }, model_name : ModelNames,
      skip_special_tokens : BOOLEAN ]

TokenizeKey(req) ==
    cache_key("tokenizer", req.text, get_tokenizer(req.model_name),
              << req.max_tokens, req.include_special_tokens >>)

DetokenizeKey(req) ==
    cache_key("detokenize", req.token_ids, get_tokenizer(req.model_name),
              << req.skip_special_tokens >>)

\* ------------------------------------------------------ the Cache Store
\* redis_client.get returned None
NoPayload == [kind |-> "none"]
\* a stored value that json.loads rejects
NotJson == [kind |-> "not_json"]
\* a stored JSON object without "token_ids" (Tokenize) / "text" (Detokenize)
MissingField == [kind |-> "missing_field"]

\* cache_data of lines 160-166
TokenizePayload(token_ids, token_strings, truncated_text, was_truncated) ==
    [kind |-> "json", token_ids |-> token_ids, token_strings |-> token_strings,
     truncated_text |-> truncated_text, was_truncated |-> was_truncated]

\* cache_data of lines 244-247
DetokenizePayload(text, model_used) ==
    [kind |-> "json", text |-> text, model_used |-> model_used]

\* cached_value as it would be if a failed read still delivered the entry
cached_value_despite_error(key, read_raises) ==
    IF redis_client /\ key \in DOMAIN store THEN store[key] ELSE NoPayload

\* lines 115-118 / 213-216: what "cached" holds after the read; nothing
\* when there is no client or redis_client.get raised
cached_value(key, read_raises) ==
    IF redis_client /\ ~read_raises /\ key \in DOMAIN store
      THEN store[key] ELSE NoPayload

\* lines 159 / 243: if self.redis_client and cache_status == "miss"
should_write(cache_status) == redis_client /\ cache_status = "miss"

\* setex as it would be if the store dropped what it is given
setex_dropped(key, payload, write_raises) ==
    store' = store

\* redis_client.setex(key, 3600, payload) inside its try / except
setex(key, payload, write_raises) ==
    store' = IF write_raises THEN store ELSE (key :> payload) @@ store

\* what the handler did with the Cache Store
ReadOutcome(read_raises) ==
    IF ~redis_client THEN "none" ELSE IF read_raises THEN "raised" ELSE "ok"

WriteOutcome(cache_status, write_raises) ==
    IF ~should_write(cache_status) THEN "none"
    ELSE IF write_raises THEN "raised" ELSE "ok"

\* ------------------------------------------------------------- Tokenize
TokenizeResponse(token_ids, token_strings, model_used, truncated_text, was_truncated, cache_status) ==
    [token_ids |-> token_ids, token_strings |-> token_strings,
     token_count |-> Len(token_ids), model_used |-> model_used,
     truncated_text |-> truncated_text, was_truncated |-> was_truncated,
     cache_status |-> cache_status, success |-> TRUE, error |-> ""]

\* lines 190-195
TokenizeFailure ==
    [token_ids |-> << >>, token_strings |-> << >>, token_count |-> 0,
     model_used |-> "", truncated_text |-> << >>, was_truncated |-> FALSE,
     cache_status |-> "", success |-> FALSE, error |-> "e"]

\* lines 138-157: the response computed by the tokenizer
TokenizeComputed(req, cache_status) ==
    LET actual_model == get_tokenizer(req.model_name)
        max_length == effective_max_length(req.max_tokens)
        token_ids == encode(actual_model, req.text, req.include_special_tokens,
                            max_length)
        was_truncated == Len(token_ids) >= max_length
        truncated_text == IF ~was_truncated THEN req.text
                          ELSE decode(actual_model, token_ids, TRUE)
    IN  TokenizeResponse(token_ids, convert_ids_to_tokens(actual_model, token_ids),
                         actual_model, truncated_text, was_truncated, cache_status)

\* The whole handler, lines 99-195.  read_raises / write_raises: the
\* Cache Store call fails; engine_raises: the tokenizer does.
Tokenize(req, read_raises, write_raises, engine_raises) ==
    /\ tok_steps < MaxTokSteps
    /\ LET key == TokenizeKey(req)
           cached == cached_value(key, read_raises)
           \* json.loads returned: line 121 has set cache_status = "hit"
           cache_status == IF cached.kind \in {"json", "missing_field"}
                             THEN "hit" ELSE "miss"
           did == [op |-> "Tokenize", request |-> req, cached |-> cached,
                   read |-> ReadOutcome(read_raises)]
       IN  IF cached.kind = "json"
             THEN \* lines 124-134: return the cached payload
                  /\ tok_last' = did @@
                       [response |-> TokenizeResponse(cached.token_ids,
                             cached.token_strings, get_tokenizer(req.model_name),
                             cached.truncated_text, cached.was_truncated, "hit"),
                        code |-> "OK", write |-> "none",
                        tokenizer_invoked |-> FALSE]
                  /\ UNCHANGED store
           ELSE IF engine_raises
             THEN \* lines 187-195
                  /\ tok_last' = did @@
                       [response |-> TokenizeFailure, code |-> "INTERNAL",
                        write |-> "none", tokenizer_invoked |-> TRUE]
                  /\ UNCHANGED store
           ELSE LET r == TokenizeComputed(req, cache_status)
                IN  /\ tok_last' = did @@
                         [response |-> r, code |-> "OK",
                          write |-> WriteOutcome(cache_status, write_raises),
                          tokenizer_invoked |-> TRUE]
                    /\ IF should_write(cache_status)
                         THEN setex(key, TokenizePayload(r.token_ids,
                                      r.token_strings, r.truncated_text,
                                      r.was_truncated), write_raises)
                         ELSE UNCHANGED store
    /\ tok_steps' = tok_steps + 1
    /\ UNCHANGED << tokenizers, redis_client, inference_vars, postprocess_vars >>

\* ----------------------------------------------------------- Detokenize
DetokenizeResponse(req, text, cache_status) ==
    [text |-> text, model_used |-> get_tokenizer(req.model_name),
     token_count |-> Len(req.token_ids), cache_status |-> cache_status,
     success |-> TRUE, error |-> ""]

\* lines 268-273
DetokenizeFailure ==
    [text |-> << >>, model_used |-> "", token_count |-> 0, cache_status |-> "",
     success |-> FALSE, error |-> "e"]

\* lines 233-241
DetokenizeComputed(req, cache_status) ==
    DetokenizeResponse(req, decode(get_tokenizer(req.model_name), req.token_ids,
                                   req.skip_special_tokens), cache_status)

\* The whole handler, lines 197-273.
Detokenize(req, read_raises, write_raises, engine_raises) ==
    /\ tok_steps < MaxTokSteps
    /\ LET key == DetokenizeKey(req)
           cached == cached_value(key, read_raises)
           cache_status == IF cached.kind \in {"json", "missing_field"}
                             THEN "hit" ELSE "miss"
           did == [op |-> "Detokenize", request |-> req, cached |-> cached,
                   read |-> ReadOutcome(read_raises)]
       IN  IF cached.kind = "json"
             THEN /\ tok_last' = did @@
                       [response |-> DetokenizeResponse(req, cached.text, "hit"),
                        code |-> "OK", write |-> "none",
                        tokenizer_invoked |-> FALSE]
                  /\ UNCHANGED store
           ELSE IF engine_raises
             THEN /\ tok_last' = did @@
                       [response |-> DetokenizeFailure, code |-> "INTERNAL",
                        write |-> "none", tokenizer_invoked |-> TRUE]
                  /\ UNCHANGED store
           ELSE LET r == DetokenizeComputed(req, cache_status)
                IN  /\ tok_last' = did @@
                         [response |-> r, code |-> "OK",
                          write |-> WriteOutcome(cache_status, write_raises),
                          tokenizer_invoked |-> TRUE]
                    /\ IF should_write(cache_status)
                         THEN setex(key, DetokenizePayload(r.text, r.model_used),
                                    write_raises)
                         ELSE UNCHANGED store
    /\ tok_steps' = tok_steps + 1
    /\ UNCHANGED << tokenizers, redis_client, inference_vars, postprocess_vars >>

\* ---------------------------------------------------------- HealthCheck
\* lines 333-341; store_reachable: the Cache Store answers at this moment
health_status(store_reachable) ==
    LET engine == IF tokenizers = {} THEN "unhealthy" ELSE "healthy"
    IN  IF redis_client /\ ~store_reachable THEN "degraded" ELSE engine

TokenizerHealthCheck(store_reachable) ==
    /\ tok_last' = [op |-> "HealthCheck", status |-> health_status(store_reachable),
                    store_reachable |-> store_reachable]
    /\ UNCHANGED << tokenizers, redis_client, store, tok_steps,
                    inference_vars, postprocess_vars >>

\* ---------------------------------------------------- Cache Store events
\* every key a request of the model can have
StoreKeys ==
    { TokenizeKey(r) : r \in TokenizeRequests }
      \cup { DetokenizeKey(r) : r \in DetokenizeRequests }

\* an entry reaches the end of its 3600 s
Expire(key) ==
    /\ tok_steps < MaxTokSteps
    /\ key \in DOMAIN store
    /\ store' = [k \in DOMAIN store \ {key} |-> store[k]]
    /\ tok_last' = [op |-> "Expire", key |-> key]
    /\ tok_steps' = tok_steps + 1
    /\ UNCHANGED << tokenizers, redis_client, inference_vars, postprocess_vars >>

\* a value that this service did not write appears under a key
ForeignWrite(key, payload) ==
    /\ tok_steps < MaxTokSteps
    /\ store' = (key :> payload) @@ store
    /\ tok_last' = [op |-> "ForeignWrite", key |-> key]
    /\ tok_steps' = tok_steps + 1
    /\ UNCHANGED << tokenizers, redis_client, inference_vars, postprocess_vars >>

\* TokenizerService.__init__: at least one tokenizer loaded (with none,
\* line 83 raises IndexError and the service does not start); the client
\* is kept only if the start-up ping succeeded.
TokenizerInit ==
    /\ InferenceInit
    /\ PostProcessNotCalled
    /\ tokenizers \in (SUBSET { Models[k] : k \in 1..Len(Models) }) \ { {} }
    /\ redis_client \in BOOLEAN
    /\ store = << >>
    /\ tok_steps = 0
    /\ tok_last = NoTokenizerCall

\* the ways a Cache Store call can end: it cannot raise without a client
StoreRaises == IF redis_client THEN BOOLEAN ELSE {FALSE}

TokenizerNext ==
    \/ \E req \in TokenizeRequests, rd, wr \in StoreRaises, eng \in BOOLEAN :
          Tokenize(req, rd, wr, eng)
    \/ \E req \in DetokenizeRequests, rd, wr \in StoreRaises, eng \in BOOLEAN :
          Detokenize(req, rd, wr, eng)
    \/ \E store_reachable \in BOOLEAN : TokenizerHealthCheck(store_reachable)
    \/ \E key \in StoreKeys : Expire(key)
    \/ \E key \in StoreKeys, payload \in {NotJson, MissingField} :
          ForeignWrite(key, payload)

TokenizerSpec == TokenizerInit /\ [][TokenizerNext]_vars

\* ================================================================ claims
\* the handler passed the capacity check and has not finished
InFlight(c) ==
    pc[c] \in {"admitted", "registered", "yield_token", "yield_terminal",
               "yield_noinput", "completing", "failing"}

\* the handler has run _add_request and has not finished
Executing(c) == InFlight(c) /\ pc[c] # "admitted"

\* the call passed the capacity check at some time
Admitted(c) == pc[c] # "idle" /\ code[c] # "RESOURCE_EXHAUSTED"

Rejected(c) == code[c] = "RESOURCE_EXHAUSTED"

Finishes(c) == pc[c] # "done" /\ pc'[c] = "done"

IsStream(c) == kind[c] = "SummarizeStream"

Last(q) == q[Len(q)]

\* C1: the number of registered handlers that are executing at the same
\* time never exceeds max_concurrent_requests.
C1_ExecutingWithinCeiling ==
    Cardinality({ c \in Calls : Executing(c) }) <= max_concurrent_requests

\* C2: an admission attempt succeeds exactly when fewer than
\* max_concurrent_requests admitted handlers are in flight: attempts below
\* the ceiling are admitted, an attempt at the ceiling is rejected, and it
\* is admitted again once a slot is released.
C2_AdmittedIffBelowCeiling ==
    [][ \A c \in Calls :
          (pc[c] = "idle" /\ pc'[c] # "idle")
            => ( (pc'[c] = "admitted")
                 <=> (Cardinality({ d \in Calls : InFlight(d) }) < max_concurrent_requests) )
      ]_vars

\* C3: when the handler of an admitted request finishes, on whatever
\* path, its request id is not in active_requests.
C3_AbsentOnceFinished ==
    [][ \A c \in Calls :
          (Finishes(c) /\ Admitted(c)) => request_id[c] \notin DOMAIN active_requests'
      ]_vars

\* C4: registering a request increments total_requests by one, and the
\* step that finishes an admitted request increments exactly one of
\* successful_requests / failed_requests, by one.
C4_CountedExactlyOnce ==
    [][ \A c \in Calls :
          /\ (pc[c] = "admitted" /\ pc'[c] = "registered")
                => total_requests' = total_requests + 1
          /\ (Finishes(c) /\ Admitted(c))
                => \/ /\ successful_requests' = successful_requests + 1
                      /\ failed_requests' = failed_requests
                   \/ /\ successful_requests' = successful_requests
                      /\ failed_requests' = failed_requests + 1
      ]_vars

\* C5: once the client has cancelled a stream, the stream's request id is
\* no longer in active_requests (the slot has been released).
C5_CancelReleasesSlot ==
    \A c \in Calls :
        pc[c] = "cancelled" => request_id[c] \notin DOMAIN active_requests

\* C6: a rejected call gets RESOURCE_EXHAUSTED and an empty response, emits
\* no message, leaves the registry and the counters as they were, is never
\* registered, and never runs again.
C6_RejectionLeavesNoTrace ==
    [][ \A c \in Calls :
          /\ (~Rejected(c) /\ Rejected(c)')
                => /\ pc[c] = "idle"
                   /\ ~check_capacity
                   /\ UNCHANGED registry
          /\ Rejected(c)'
                => /\ pc'[c] = "done"
                   /\ response'[c] = EmptyResponse
                   /\ emitted'[c] = <<>>
                   /\ request_id'[c] = ""
                   /\ ctx_status'[c] = "none"
                   /\ \A k \in DOMAIN active_requests' : active_requests'[k] # c
      ]_vars

\* C6 witness: a stream call was rejected while another call held a slot.
C6_Witness ==
    \E c, d \in Calls :
        /\ Rejected(c)
        /\ IsStream(c)
        /\ Executing(d)
        /\ request_id[d] \in DOMAIN active_requests

\* C7: from its registration to the emission of its terminal message, a
\* stream's request id is in active_requests.
C7_StreamHoldsSlot ==
    \A c \in Calls :
        (IsStream(c) /\ pc[c] \in {"registered", "yield_token"})
            => request_id[c] \in DOMAIN active_requests

\* the stream of call c has ended with the final message of a full replay
\* (a terminal message that carries none of the explanatory texts)
ReplayedInFull(c) ==
    /\ IsStream(c)
    /\ pc[c] \in {"yield_terminal", "completing", "done"}
    /\ emitted[c] # <<>>
    /\ Last(emitted[c]).token \notin
          {ErrorMessage.token, UnableMessage.token, NoInputMessage.token}

\* C8: in a stream that ran to normal completion the number of non-final
\* messages equals the number of token ids of the re-tokenized summary, and
\* the final message has is_final set, an empty token and that number as
\* its position.
C8_ReplayCount ==
    \A c \in Calls :
        ReplayedInFull(c) =>
            LET n == Len(generated_token_ids[c])
                nonfinal == { k \in 1..Len(emitted[c]) : ~emitted[c][k].is_final }
            IN  /\ Cardinality(nonfinal) = n
                /\ Len(emitted[c]) = n + 1
                /\ Last(emitted[c]).is_final
                /\ Last(emitted[c]).token = ""
                /\ Last(emitted[c]).position = n

C8_Witness ==
    \E c \in Calls :
        /\ ReplayedInFull(c)
        /\ pc[c] = "done"
        /\ Len(generated_token_ids[c]) = MaxSummaryTokens
        /\ Len(emitted[c]) > 1

\* C9: a stream emits at most one is_final message, and no message after it.
C9_TerminalIsLast ==
    \A c \in Calls :
        \A k \in 1..Len(emitted[c]) :
            emitted[c][k].is_final => k = Len(emitted[c])

\* C9 witness: a stream that failed after it had emitted a token, and has
\* since run to its end.
C9_Witness ==
    \E c \in Calls :
        /\ pc[c] = "done"
        /\ Len(emitted[c]) > 1
        /\ Last(emitted[c]) = ErrorMessage

\* C10: an admitted stream that the client did not cancel has emitted a
\* terminal message by the time it ends.
C10_EndsWithTerminal ==
    \A c \in Calls :
        (IsStream(c) /\ Admitted(c) /\ pc[c] = "done")
            => (emitted[c] # <<>> /\ Last(emitted[c]).is_final)

\* ------------------------------------------- Summarize: failure handling
IsUnary(c) == kind[c] = "Summarize"

\* a Model Engine call made for c raised
EngineRaised(c) == engine_calls[c].raised

\* C11: when a Model Engine call raises during a unary Summarize, the step
\* that finishes the request counts it in failed_requests and leaves it
\* deregistered and marked failed, with RPC status INTERNAL and
\* success = false in the body.
C11_EngineFailureFailsRequest ==
    [][ \A c \in Calls :
          (Finishes(c) /\ IsUnary(c) /\ EngineRaised(c))
            => /\ failed_requests' = failed_requests + 1
               /\ request_id[c] \notin DOMAIN active_requests'
               /\ ctx_status'[c] = "failed"
               /\ code'[c] = "INTERNAL"
               /\ response'[c].success = FALSE
      ]_vars

\* C12: for every outcome of an admitted unary request the RPC status is
\* INTERNAL exactly when the response body has success = false.
C12_StatusMatchesBody ==
    \A c \in Calls :
        (IsUnary(c) /\ Admitted(c) /\ pc[c] = "done")
            => ((code[c] = "INTERNAL") <=> (response[c].success = FALSE))

\* C12 witness: an admitted unary request ended after a Model Engine call
\* had raised.
C12_Witness ==
    \E c \in Calls :
        IsUnary(c) /\ Admitted(c) /\ pc[c] = "done" /\ EngineRaised(c)

\* C13: a unary Summarize with no usable input (no token ids and a text
\* that is empty after trimming) invokes no Model Engine call, returns
\* success = true with tokens_used = 0 and no generated token ids, sets no
\* error status, and finishes deregistered and counted as successful.
C13_NoInputSucceeds ==
    [][ \A c \in Calls :
          (/\ IsUnary(c)
           /\ Admitted(c)
           /\ request[c].token_ids = <<>>
           /\ strip(request[c].original_text) = <<>>)
            => /\ engine_calls'[c] = NoEngineCalls
               /\ code'[c] = "OK"
               /\ pc'[c] \in {"completing", "done"}
                    => /\ response'[c].success
                       /\ response'[c].tokens_used = 0
                       /\ response'[c].generated_token_ids = <<>>
               /\ Finishes(c)
                    => /\ successful_requests' = successful_requests + 1
                       /\ failed_requests' = failed_requests
                       /\ request_id[c] \notin DOMAIN active_requests'
      ]_vars

\* C13 witness: a unary request whose text is all whitespace has ended.
C13_Witness ==
    \E c \in Calls :
        /\ IsUnary(c)
        /\ pc[c] = "done"
        /\ Admitted(c)
        /\ request[c].token_ids = <<>>
        /\ request[c].original_text # <<>>
        /\ strip(request[c].original_text) = <<>>

\* ------------------------------------------------ tokenizer: the cache
IsCached(t) == t.op \in {"Tokenize", "Detokenize"}

\* C14: with a working cache and no entry for the key, two identical
\* Tokenize calls in a row are answered miss, then hit, with the same
\* token_ids; the tokenizer runs for the first only, and only the first
\* writes to the cache.
C14_MissThenHit ==
    [][ \A req \in TokenizeRequests :
          (/\ redis_client
           /\ tok_last.op = "Tokenize"
           /\ tok_last.request = req
           /\ tok_last.cached = NoPayload
           /\ tok_last.read = "ok"
           /\ tok_last.write = "ok"
           /\ Tokenize(req, FALSE, FALSE, FALSE))
            => /\ tok_last.response.cache_status = "miss"
               /\ tok_last.tokenizer_invoked
               /\ tok_last'.response.cache_status = "hit"
               /\ tok_last'.response.token_ids = tok_last.response.token_ids
               /\ ~tok_last'.tokenizer_invoked
               /\ tok_last'.write = "none"
               /\ store' = store
      ]_vars

\* C14 witness: the second of two identical calls was answered from the
\* entry that the first one wrote.
C14_Witness ==
    /\ tok_steps = 2
    /\ tok_last.op = "Tokenize"
    /\ tok_last.response.cache_status = "hit"
    /\ tok_last.cached.kind = "json"
    /\ tok_last.response.token_count = hard_ceiling

C16_HitCarriesCachedPayload ==
    (IsCached(tok_last) /\ tok_last.response.cache_status = "hit")
      => /\ ~tok_last.tokenizer_invoked
         /\ tok_last.cached.kind = "json"
         /\ IF tok_last.op = "Tokenize"
              THEN tok_last.response.token_ids = tok_last.cached.token_ids
              ELSE tok_last.response.text = tok_last.cached.text

\* C17: without a Cache Store client no read or write is attempted and
\* the response is annotated disabled; miss is reported only when a
\* client consulted the store.
C17_DisabledWithoutStore ==
    (IsCached(tok_last) /\ tok_last.code = "OK")
      => /\ ~redis_client
            => /\ tok_last.response.cache_status = "disabled"
               /\ tok_last.read = "none"
               /\ tok_last.write = "none"
         /\ tok_last.response.cache_status = "miss" => tok_last.read # "none"

\* C18: the tokenizer service's HealthCheck reports unhealthy when no
\* tokenizer is loaded, whatever the state of the store; with a tokenizer
\* loaded it reports healthy when the Cache Store is reachable and degraded
\* when it is not, also when the store was already unreachable at start-up.
C18_HealthStatus ==
    tok_last.op = "HealthCheck"
      => tok_last.status =
           IF tokenizers = {} THEN "unhealthy"
           ELSE IF tok_last.store_reachable THEN "healthy"
           ELSE "degraded"

CouldNotBeGenerated ==
    << "S", "u", "m", "m", "a", "r", "y", " ", "c", "o", "u", "l", "d",
       " ", "n", "o", "t", " ", "b", "e", " ", "g", "e", "n", "e", "r",
       "a", "t", "e", "d", "." >>

FallbackSentence ==
    << "T", "h", "i", "s", " ", "c", "o", "n", "t", "e", "n", "t", " ",
       "p", "r", "o", "v", "i", "d", "e", "s", " ", "r", "e", "l", "e",
       "v", "a", "n", "t", " ", "i", "n", "f", "o", "r", "m", "a", "t",
       "i", "o", "n", " ", "a", "n", "d", " ", "i", "n", "s", "i", "g",
       "h", "t", "s", "." >>

\* text.split('.'): the segments between the periods; a text with k
\* periods has k + 1 segments, empty ones included.
RECURSIVE split(_)
split(text) ==
    IF \A k \in 1..Len(text) : text[k] # "."
      THEN << text >>
      ELSE LET first == CHOOSE k \in 1..Len(text) :
                            /\ text[k] = "."
                            /\ \A j \in 1..(k - 1) : text[j] # "."
           IN  << SubSeq(text, 1, first - 1) >>
                 \o split(SubSeq(text, first + 1, Len(text)))

\* '. '.join(segments)
RECURSIVE join(_)
join(segments) ==
    IF segments = << >> THEN << >>
    ELSE IF Len(segments) = 1 THEN segments[1]
    ELSE segments[1] \o << ".", " " >> \o join(Tail(segments))

\* lines 452-472
post_process_summary(text) ==
    IF text = << >> THEN CouldNotBeGenerated
    ELSE LET t == strip(text)
         IN  IF Len(t) < min_summary_chars THEN FallbackSentence
             ELSE IF Len(t) > max_summary_chars
               THEN LET sentences == split(t)
                    IN  IF Len(sentences) > 1
                          THEN join(SubSeq(sentences, 1, 2)) \o << "." >>
                          ELSE SubSeq(t, 1, max_summary_chars) \o << ".", ".", "." >>
             ELSE t

\* ---------------------------------------------------------- raw summaries
Run(ch, n) == [k \in 1..n |-> ch]

\* lengths of the stretches of letters a raw summary is made of
RunLengths == { 0, 4, 150, max_summary_chars + 1 }

\* Raw summaries: up to three stretches of letters, each followed or not
\* by a period, the second one preceded or not by a space.  The callers
\* strip the text before the call (lines 404, 438).
RawSummaries ==
    { t \in { Run("a", n1) \o e1 \o sp \o Run("b", n2) \o e2 \o Run("c", n3) \o e3 :
                n1 \in RunLengths, n2 \in RunLengths, n3 \in { 0, 4 },
                e1 \in { << >>, << "." >> }, e2 \in { << >>, << "." >> },
                e3 \in { << >>, << "." >> }, sp \in { << >>, << " " >> } } :
        t = strip(t) }

PostProcessInit ==
    /\ InferenceInit
    /\ TokenizerNotStarted
    /\ raw_summary \in RawSummaries
    /\ processed = NotProcessed

\* the call self._post_process_summary(summary.strip()) returns
PostProcess ==
    /\ ~processed.returned
    /\ processed' = [returned |-> TRUE, text |-> post_process_summary(raw_summary)]
    /\ UNCHANGED << raw_summary, inference_vars, tokenizer_vars >>

PostProcessNext == PostProcess

PostProcessSpec == PostProcessInit /\ [][PostProcessNext]_vars

\* C20: post-processing a raw summary of more than max_summary_chars
\* characters returns a strictly shorter text, which is either the first
\* two period-delimited segments (when the text has at least two) or the
\* first max_summary_chars characters followed by an ellipsis.
C20_LongSummaryShortened ==
    (processed.returned /\ Len(raw_summary) > max_summary_chars)
      => /\ Len(processed.text) < Len(raw_summary)
         /\ \/ /\ Len(split(raw_summary)) >= 2
               /\ processed.text =
                     join(SubSeq(split(raw_summary), 1, 2)) \o << "." >>
            \/ processed.text =
                  SubSeq(raw_summary, 1, max_summary_chars) \o << ".", ".", "." >>

\* C21: a raw summary whose trimmed length is below min_summary_chars,
\* the empty text included, is replaced by the one fallback sentence, and a
\* raw summary of trimmed length min_summary_chars..max_summary_chars is
\* returned trimmed and otherwise unchanged.
C21_ShortReplacedByFallback ==
    processed.returned
      => LET t == strip(raw_summary)
         IN  /\ Len(t) < min_summary_chars => processed.text = FallbackSentence
             /\ (Len(t) >= min_summary_chars /\ Len(t) <= max_summary_chars)
                  => processed.text = t

\* ------------------------------------------- SummarizeStream: outcomes
\* the stream's terminal message reports a Model Engine error or the
\* absence of model output
StreamFailed(c) ==
    /\ IsStream(c)
    /\ emitted[c] # << >>
    /\ Last(emitted[c]).token \in {ErrorMessage.token, UnableMessage.token}

\* C22: the step that finishes a stream whose terminal message reports a
\* Model Engine error or no model output marks it failed and counts it in
\* failed_requests; only a stream that replayed its full summary is marked
\* completed and counted in successful_requests.
C22_StreamOutcomeMatchesRegistry ==
    [][ \A c \in Calls :
          (Finishes(c) /\ IsStream(c) /\ Admitted(c))
            => /\ StreamFailed(c)
                    => /\ ctx_status'[c] = "failed"
                       /\ failed_requests' = failed_requests + 1
               /\ (ctx_status'[c] = "completed"
                     \/ successful_requests' = successful_requests + 1)
                    => ReplayedInFull(c)
      ]_vars

\* C23: every entry of active_requests belongs to a request whose status
\* is processing: no completed or failed RequestContext is in the map.
C23_EntriesAreProcessing ==
    \A id \in DOMAIN active_requests :
        ctx_status[active_requests[id]] = "processing"

\* ------------------------------------------ tokenizer: truncation flag
\* C30: a text whose untruncated token count is at most the effective
\* ceiling, the ceiling itself included, comes back with
\* was_truncated = false and truncated_text equal to the text.
C30_TruncatedOnlyWhenCut ==
    (tok_last.op = "Tokenize" /\ tok_last.code = "OK")
      => LET req == tok_last.request
             r == tok_last.response
             ceiling == IF req.max_tokens > 0 /\ req.max_tokens < hard_ceiling
                          THEN req.max_tokens ELSE hard_ceiling
             full == full_token_count(get_tokenizer(req.model_name), req.text,
                                      req.include_special_tokens)
         IN  full <= ceiling
               => /\ ~r.was_truncated
                  /\ r.truncated_text = req.text

\* ------------------------------------------- SummarizeStream: the replay
\* C25: the k-th non-final message of a stream (k from 0) has position k
\* and carries the k-th token id of the re-tokenized summary, and no
\* non-final message comes after the terminal one.
C25_ReplayInOrder ==
    \A c \in Calls :
        IsStream(c) =>
            \A k \in 1..Len(emitted[c]) :
                IF emitted[c][k].is_final
                  THEN \A j \in 1..(k - 1) : ~emitted[c][j].is_final
                  ELSE /\ emitted[c][k].position = k - 1
                       /\ k <= Len(generated_token_ids[c])
                       /\ emitted[c][k].generated_token_id = generated_token_ids[c][k]
                       /\ \A j \in 1..(k - 1) : ~emitted[c][j].is_final

\* C25 witness: a stream has replayed two different token ids and ended.
C25_Witness ==
    \E c \in Calls :
        /\ IsStream(c)
        /\ pc[c] = "done"
        /\ Len(emitted[c]) = 3
        /\ ~emitted[c][1].is_final
        /\ ~emitted[c][2].is_final
        /\ emitted[c][1].generated_token_id # emitted[c][2].generated_token_id

\* ------------------------------------------------ registry: accounting
\* C28: outside the locked sections, total_requests equals
\* successful_requests + failed_requests + the number of entries of
\* active_requests, also when calls carry the same request id.
C28_Accounting ==
    total_requests =
        successful_requests + failed_requests + Cardinality(DOMAIN active_requests)

\* C29: active_requests has one entry for each handler that has
\* registered and not finished, and none besides: the entry under such a
\* handler's id is its own (registering never overwrites and finishing
\* never removes the entry of another handler in flight).
C29_RegistryIsLoad ==
    /\ Cardinality(DOMAIN active_requests) = Cardinality({ c \in Calls : Executing(c) })
    /\ \A c \in Calls :
          Executing(c) => /\ request_id[c] \in DOMAIN active_requests
                          /\ active_requests[request_id[c]] = c

\* ------------------------------------------ stream and unary generation
\* the two calls carry the same input and the same max_length
SameInput(c, d) ==
    /\ request[c].token_ids = request[d].token_ids
    /\ request[c].original_text = request[d].original_text
    /\ request[c].max_length = request[d].max_length

\* C26: for the same request, SummarizeStream calls the summarizer with the
\* input resolved as in Summarize, the same clamped max_length and the
\* same post-processing of the result.
C26_StreamGeneratesAsUnary ==
    \A c, d \in Calls :
        (/\ IsUnary(c)
         /\ IsStream(d)
         /\ SameInput(c, d)
         /\ engine_calls[c].summarizer = 1
         /\ engine_calls[d].summarizer = 1
         /\ engine_calls[c].tokenizer = engine_calls[d].tokenizer
         /\ ~EngineRaised(c)
         /\ ~EngineRaised(d))
          => /\ engine_calls[d].input = engine_calls[c].input
             /\ engine_calls[d].max_length = engine_calls[c].max_length
             /\ engine_calls[d].post_processed = engine_calls[c].post_processed

\* ---------------------------------------------------------- HealthCheck
\* the step is a HealthCheck of the inference service
InferenceHealthChecked == health' # health

\* the step is a HealthCheck of the tokenizer service
TokenizerHealthChecked == tok_steps' # tok_steps /\ tok_last'.op = "HealthCheck"

\* C24: every read of active_requests and of the counters, HealthCheck's
\* included, is made while the reading thread holds requests_lock.
C24_RegistryReadUnderLock ==
    health.read_registry => health.lock_held

====
